---- MODULE Spec2Model ----
(***************************************************************************)
(* Session lifecycle manager of biochatter-server:                         *)
(*   src/src/conversation_manager.py  (session store, SessionData.chat,    *)
(*                                     recycle_conversations)              *)
(*   src/app.py                       (POST /v1/chat/completions handler)  *)
(* Threads run the module's public functions; every function is a frame on *)
(* the calling thread's stack and every frame advances one statement group *)
(* at a time, so that the re-entrant lock is what orders the threads.      *)
(***************************************************************************)
EXTENDS Integers, Sequences, FiniteSets, TLC

\* ------------------------------------------------------------------ bounds
NThreads == 2
MaxTicks == 2
ClockPerMs == 2

\* --------------------------------------------------------------- constants
MAX_AGE == 3 * 24 * 3600 * 1000

DefaultModel == "gpt-4"

Scheduler == 0
Workers == 1..NThreads
AllThreads == {Scheduler} \cup Workers

SessionIds == {"", "abc"}
Models == {"gpt-4", "mistral-wasm"}
AuthKeys == {"", "sk-1"}

None == "None"

\* A reading of datetime.now(): whole milliseconds and the fraction of the
\* next one, in ClockPerMs-ths.
Epoch == [ms |-> 0, sub |-> 0]
NoRef == 0

\* ---------------------------------------------------------------- messages
Roles == {"system", "assistant", "user", "tool"}
Contents == {"hi", "yo"}

Msg(r, c) == [role |-> r, content |-> c]

\* The message lists the callers of chat send in the concurrent model.
ChatMessages ==
    { <<>>,
      << Msg("user", "hi") >>,
      << Msg("system", "yo"), Msg("user", "hi") >>,
      << Msg("system", "yo"), Msg("tool", "hi"), Msg("assistant", "hi"),
         Msg("tool", "yo") >> }

\* Message lists that leave an empty and a non-empty history.
PlainMessages ==
    { << Msg("user", "hi") >>,
      << Msg("system", "yo"), Msg("user", "hi") >> }

\* -------------------------------------------------------------- the engine
NoRag == [set |-> FALSE, use_prompt |-> FALSE, api_key |-> ""]

DocumentEmbedder(use_prompt, api_key) ==
    [set |-> TRUE, use_prompt |-> use_prompt, api_key |-> api_key]

NoChatter == [id |-> NoRef, variant |-> "none", messages |-> <<>>,
              hasChat |-> FALSE, rag_agent |-> NoRag]

RetNone == [kind |-> "None", ref |-> NoRef, flag |-> FALSE]

RetBool(b) == [kind |-> "bool", ref |-> NoRef, flag |-> b]

RetRef(r) == [kind |-> "ref", ref |-> r, flag |-> FALSE]

RetReply == [kind |-> "reply", ref |-> NoRef, flag |-> FALSE]

\* What the HTTP handler sends back: a JSON body (with or without a code),
\* or the exception that left the handler.
NoResponse == [kind |-> "none", code |-> None]

Json(code) == [kind |-> "json", code |-> code]

Unhandled == [kind |-> "unhandled", code |-> None]

VARIABLES
    conversationsDict,  \* sessionId -> reference to a SessionData
    heap,               \* reference -> SessionData object
    holds,              \* rlock: thread -> number of acquisitions it holds
    clock,              \* wall clock: milliseconds and ClockPerMs-ths of one
    ticks,              \* number of clock advances so far
    azure,              \* os.environ[OPENAI_API_TYPE] == "azure"
    openaiKey,          \* openai.api_key is set
    stack,              \* thread -> call stack, top first
    loc                 \* thread -> arguments, locals, result of its call

vars == <<conversationsDict, heap, holds, clock, ticks, azure, openaiKey,
          stack, loc>>

IdleLoc ==
    [op |-> "idle", sid |-> "", model |-> DefaultModel, messages |-> <<>>,
     authKey |-> "", useRAG |-> FALSE, backend |-> "up",
     chatter |-> NoChatter, conversation |-> NoRef, text |-> "",
     ret |-> RetNone, exc |-> None, response |-> NoResponse,
     now |-> Epoch, toScan |-> {}, sessionsToRemove |-> <<>>,
     calls |-> {}, replaced |-> NoRef,
     rag |-> "", connection_args |-> << >>, environ |-> << >>]

Init ==
    /\ conversationsDict = << >>
    /\ heap = << >>
    /\ holds = [t \in AllThreads |-> 0]
    /\ clock = Epoch
    /\ ticks = 0
    /\ azure \in BOOLEAN
    /\ openaiKey \in BOOLEAN
    /\ stack = [t \in AllThreads |-> << >>]
    /\ loc = [t \in AllThreads |-> IdleLoc]

\* ------------------------------------------------------------ stack helpers
Frame(fn, pc) == [fn |-> fn, pc |-> pc]

At(t, fn, pc) ==
    /\ stack[t] # << >>
    /\ Head(stack[t]).fn = fn
    /\ Head(stack[t]).pc = pc

Goto(t, pc) ==
    [stack EXCEPT ![t] = << Frame(Head(@).fn, pc) >> \o Tail(@)]

\* Set the caller's continuation and enter the callee at its first statement.
Call(t, pc, fn) ==
    [stack EXCEPT ![t] =
        << Frame(fn, "acquire"), Frame(Head(@).fn, pc) >> \o Tail(@)]

Restrict(f, S) == [x \in S |-> f[x]]

Range(f) == {f[x] : x \in DOMAIN f}

\* References a thread still holds.
Refs(l) == {l[t].conversation : t \in DOMAIN l} \cup {l[t].ret.ref : t \in DOMAIN l}

\* Objects no dictionary entry and no thread refers to are garbage.
Collect(h, d, l) == Restrict(h, DOMAIN h \cap (Range(d) \cup Refs(l)))

\* ------------------------------------------------------------------- rlock
\* A lock that excludes nobody.
CanAcquireAlways(t) == TRUE

\* A lock that chat gives up for the time of the engine call.
CanAcquireOverEngine(t) ==
    \A u \in AllThreads \ {t} :
        \/ holds[u] = 0
        \/ stack[u] # << >> /\ Head(stack[u]).fn = "SessionData_chat"

\* RLock: free, or held by the thread itself.
CanAcquire(t) == \A u \in AllThreads \ {t} : holds[u] = 0

\* An acquisition that leaves no trace.
AcquiredUncounted(t) == holds

Acquired(t) == [holds EXCEPT ![t] = @ + 1]

\* A finally clause that keeps the lock.
ReleasedNever(t) == holds

\* A release that gives the lock up whatever the count.
ReleasedAll(t) == [holds EXCEPT ![t] = 0]

\* rlock.release()
Released(t) == [holds EXCEPT ![t] = @ - 1]

\* rlock.acquire() as the first statement of every store function.
rlock_acquire(t) ==
    /\ stack[t] # << >>
    /\ Head(stack[t]).pc = "acquire"
    /\ CanAcquire(t)
    /\ holds' = Acquired(t)
    /\ stack' = Goto(t, "try")
    /\ UNCHANGED <<conversationsDict, heap, clock, ticks, azure,
                   openaiKey, loc>>

\* Every except clause without its raise.
SwallowsAll(fn) == TRUE

\* remove_conversation logs and swallows; every other function re-raises.
Swallows(fn) == fn = "remove_conversation"

\* finally: rlock.release(), then return or re-raise to the caller.
finally_release(t) ==
    /\ stack[t] # << >>
    /\ Head(stack[t]).pc = "finally"
    /\ holds' = Released(t)
    /\ stack' = [stack EXCEPT ![t] = Tail(@)]
    /\ LET l == IF Tail(stack[t]) = << >>
                THEN [loc EXCEPT ![t] = IdleLoc]
                ELSE [loc EXCEPT ![t].exc =
                        IF Swallows(Head(stack[t]).fn) THEN None ELSE @]
       IN /\ loc' = l
          /\ heap' = Collect(heap, conversationsDict, l)
    /\ UNCHANGED <<conversationsDict, clock, ticks, azure, openaiKey>>

\* ------------------------------------------------- initialize_conversation
Variant(isAzure, model) ==
    IF isAzure THEN "azure"
    ELSE IF model = "mistral-wasm" THEN "wasm"
    ELSE "gpt"

NewChatter(id, isAzure, model) ==
    [id |-> id, variant |-> Variant(isAzure, model), messages |-> << >>,
     hasChat |-> isAzure, rag_agent |-> NoRag]

\* int(datetime.now().timestamp() * 1000)
NowMs == clock.ms

SessionData(sessionId, modelConfig, chatter) ==
    [sessionId |-> sessionId, modelConfig |-> modelConfig, chatter |-> chatter,
     createdAt |-> NowMs, refreshedAt |-> NowMs, maxAge |-> MAX_AGE]

\* References in use: stored objects, references held by threads, engines
\* under construction.
Live == DOMAIN heap \cup Refs(loc) \cup {loc[t].chatter.id : t \in AllThreads}

\* A newly allocated object is none of the live ones.
Fresh == CHOOSE n \in 1..(Cardinality(Live) + 1) : n \notin Live

\* The constructor of the engine (and, for Azure, the environment lookups and
\* set_api_key) either returns the engine or raises.
initialize_construct(t) ==
    /\ At(t, "initialize_conversation", "try")
    /\ \E ok \in BOOLEAN :
        IF ok
        THEN /\ loc' = [loc EXCEPT ![t].chatter =
                           NewChatter(Fresh, azure, loc[t].model),
                                  ![t].calls = @ \cup {"construct"}]
             /\ stack' = Goto(t, "insert")
        ELSE /\ loc' = [loc EXCEPT ![t].exc = "ConstructError"]
             /\ stack' = Goto(t, "finally")
    /\ UNCHANGED <<conversationsDict, heap, holds, clock, ticks, azure, openaiKey>>

\* setdefault in place of the assignment.
InsertedIfAbsent(d, s, ref) ==
    [x \in DOMAIN d \cup {s} |-> IF x \in DOMAIN d THEN d[x] ELSE ref]

Inserted(d, s, ref) ==
    [x \in DOMAIN d \cup {s} |-> IF x = s THEN ref ELSE d[x]]

\* conversationsDict[sessionId] = SessionData(...)
initialize_insert(t) ==
    /\ At(t, "initialize_conversation", "insert")
    /\ LET ch == loc[t].chatter
           obj == SessionData(loc[t].sid, loc[t].model, ch)
           d == Inserted(conversationsDict, loc[t].sid, ch.id)
           old == IF loc[t].sid \in DOMAIN conversationsDict
                  THEN conversationsDict[loc[t].sid] ELSE NoRef
           l == [loc EXCEPT ![t].chatter = NoChatter, ![t].replaced = old]
       IN /\ conversationsDict' = d
          /\ loc' = l
          /\ heap' = Collect(Inserted(heap, ch.id, obj), d, l)
    /\ stack' = Goto(t, "finally")
    /\ UNCHANGED <<holds, clock, ticks, azure, openaiKey>>

\* -------------------------------------------------------- has_conversation
has_conversation_body(t) ==
    /\ At(t, "has_conversation", "try")
    /\ loc' = [loc EXCEPT ![t].ret = RetBool(loc[t].sid \in DOMAIN conversationsDict)]
    /\ stack' = Goto(t, "finally")
    /\ UNCHANGED <<conversationsDict, heap, holds, clock, ticks, azure,
                   openaiKey>>

\* -------------------------------------------------------- get_conversation
get_conversation_check(t) ==
    /\ At(t, "get_conversation", "try")
    /\ IF loc[t].sid \notin DOMAIN conversationsDict
       THEN /\ stack' = Call(t, "return", "initialize_conversation")
            /\ loc' = [loc EXCEPT ![t].model = DefaultModel]
       ELSE /\ stack' = Goto(t, "return")
            /\ loc' = loc
    /\ UNCHANGED <<conversationsDict, heap, holds, clock, ticks, azure,
                   openaiKey>>

get_conversation_return(t) ==
    /\ At(t, "get_conversation", "return")
    /\ LET sid == loc[t].sid
       IN loc' = IF loc[t].exc # None THEN loc
                 ELSE IF sid \in DOMAIN conversationsDict
                 THEN [loc EXCEPT ![t].ret = RetRef(conversationsDict[sid])]
                 ELSE [loc EXCEPT ![t].exc = "KeyError"]
    /\ stack' = Goto(t, "finally")
    /\ UNCHANGED <<conversationsDict, heap, holds, clock, ticks, azure,
                   openaiKey>>

\* ----------------------------------------------------- remove_conversation
\* A removal without its del.
DeletedNothing(d, s) == d

\* clear() in place of the del.
DeletedAll(d, s) == << >>

\* del conversationsDict[sessionId]

Deleted(d, s) == Restrict(d, DOMAIN d \ {s})

remove_conversation_body(t) ==
    /\ At(t, "remove_conversation", "try")
    /\ LET d == IF loc[t].sid \notin DOMAIN conversationsDict
                THEN conversationsDict
                ELSE Deleted(conversationsDict, loc[t].sid)
       IN /\ conversationsDict' = d
          /\ heap' = Collect(heap, d, loc)
    /\ stack' = Goto(t, "finally")
    /\ UNCHANGED <<holds, clock, ticks, azure, openaiKey, loc>>

\* --------------------------------------------------- recycle_conversations
\* now = datetime.now().timestamp() * 1000 and the start of the loop over
\* conversationsDict.keys().
recycle_now(t) ==
    /\ At(t, "recycle_conversations", "try")
    /\ loc' = [loc EXCEPT ![t].now = clock,
                          ![t].toScan = DOMAIN conversationsDict,
                          ![t].sessionsToRemove = << >>]
    /\ stack' = Goto(t, "scan")
    /\ UNCHANGED <<conversationsDict, heap, holds, clock, ticks, azure,
                   openaiKey>>

\* for sessionId in conversationsDict.keys(): get_conversation(sessionId)
recycle_scan(t) ==
    /\ At(t, "recycle_conversations", "scan")
    /\ IF loc[t].toScan = {}
       THEN /\ stack' = Goto(t, "remove")
            /\ loc' = loc
       ELSE \E s \in loc[t].toScan :
            /\ stack' = Call(t, "scanned", "get_conversation")
            /\ loc' = [loc EXCEPT ![t].sid = s, ![t].toScan = @ \ {s}]
    /\ UNCHANGED <<conversationsDict, heap, holds, clock, ticks, azure,
                   openaiKey>>

\* The comparison with <= and now cut to whole milliseconds.
ExpiredInclusive(conversation, now) ==
    conversation.refreshedAt + conversation.maxAge <= now.ms

\* conversation.refreshedAt + conversation.maxAge < now: the deadline is a
\* whole number of milliseconds, now has a fraction.
Expired(conversation, now) ==
    LET deadline == conversation.refreshedAt + conversation.maxAge
    IN \/ deadline < now.ms
       \/ (deadline = now.ms /\ now.sub > 0)

recycle_scanned(t) ==
    /\ At(t, "recycle_conversations", "scanned")
    /\ IF loc[t].exc # None
       THEN /\ stack' = Goto(t, "finally")
            /\ loc' = loc
            /\ heap' = heap
       ELSE LET conversation == heap[loc[t].ret.ref]
                l == [loc EXCEPT
                        ![t].ret = RetNone,
                        ![t].sessionsToRemove =
                            IF Expired(conversation, loc[t].now)
                            THEN Append(@, conversation.sessionId)
                            ELSE @]
            IN /\ stack' = Goto(t, "scan")
               /\ loc' = l
               /\ heap' = Collect(heap, conversationsDict, l)
    /\ UNCHANGED <<conversationsDict, holds, clock, ticks, azure,
                   openaiKey>>

\* A statement of the loop body (the log line, the assert, the comparison)
\* raises: except logs and raises again.
recycle_fault(t) ==
    /\ At(t, "recycle_conversations", "scanned")
    /\ loc[t].exc = None
    /\ loc' = [loc EXCEPT ![t].exc = "UnexpectedError", ![t].ret = RetNone]
    /\ heap' = Collect(heap, conversationsDict, loc')
    /\ stack' = Goto(t, "finally")
    /\ UNCHANGED <<conversationsDict, holds, clock, ticks, azure,
                   openaiKey>>

\* One removal per tick.
RemainingNone(list) == << >>

\* The second loop goes on with the rest of sessionsToRemove.
Remaining(list) == Tail(list)

\* for sessionId in sessionsToRemove: remove_conversation(sessionId)
recycle_remove(t) ==
    /\ At(t, "recycle_conversations", "remove")
    /\ IF loc[t].sessionsToRemove = << >>
       THEN /\ stack' = Goto(t, "finally")
            /\ loc' = loc
       ELSE /\ stack' = Call(t, "remove", "remove_conversation")
            /\ loc' = [loc EXCEPT ![t].sid = Head(loc[t].sessionsToRemove),
                                  ![t].sessionsToRemove = Remaining(@)]
    /\ UNCHANGED <<conversationsDict, heap, holds, clock, ticks, azure,
                   openaiKey>>

\* -------------------------------------------------------- SessionData.chat
\* Enter a method that takes no lock, at its first statement.
Invoke(t, pc, fn, first) ==
    [stack EXCEPT ![t] =
        << Frame(fn, first), Frame(Head(@).fn, pc) >> \o Tail(@)]

Self(t) == heap[loc[t].conversation]

\* One engine shared by every record.
WithChatterAll(h, ref, ch) == [r \in DOMAIN h |-> [h[r] EXCEPT !.chatter = ch]]

\* A chat that also refreshes the record.
WithChatterRefreshed(h, ref, ch) ==
    [h EXCEPT ![ref].chatter = ch, ![ref].refreshedAt = clock.ms]

\* self.chatter.<attribute> = ... on the record of the call.
WithChatter(h, ref, ch) == [h EXCEPT ![ref].chatter = ch]

Called(l, t, what) == [l EXCEPT ![t].calls = @ \cup {what}]

\* The method without its guard on messages.
NoMessagesNever(messages) == FALSE

\* not messages or len(messages) == 0
NoMessages(messages) == Len(messages) = 0

\* if self.chatter is None: return / if not messages: return
chat_guard(t) ==
    /\ At(t, "SessionData_chat", "guard")
    /\ IF Self(t).chatter.variant = "none" \/ NoMessages(loc[t].messages)
       THEN /\ loc' = [loc EXCEPT ![t].ret = RetNone]
            /\ stack' = Goto(t, "return")
       ELSE /\ loc' = loc
            /\ stack' = Goto(t, "key")
    /\ UNCHANGED <<conversationsDict, heap, holds, clock, ticks, azure,
                   openaiKey>>

\* The engine is not an AzureGptConversation and has no working key yet.
NeedsKey(chatter) ==
    /\ chatter.variant # "azure"
    /\ (~openaiKey \/ ~chatter.hasChat)

\* Lines 69-78: without a key the method returns False; with one it hands the
\* key to the engine, which accepts it or not (its answer is not read).
chat_key(t) ==
    /\ At(t, "SessionData_chat", "key")
    /\ IF ~NeedsKey(Self(t).chatter)
       THEN /\ stack' = Goto(t, "rag")
            /\ UNCHANGED <<loc, heap, openaiKey>>
       ELSE IF loc[t].authKey = ""
       THEN /\ loc' = [loc EXCEPT ![t].ret = RetBool(FALSE)]
            /\ stack' = Goto(t, "return")
            /\ UNCHANGED <<heap, openaiKey>>
       ELSE \E accepted \in BOOLEAN :
            /\ heap' = WithChatter(heap, loc[t].conversation,
                          [Self(t).chatter EXCEPT !.hasChat = accepted])
            /\ openaiKey' = (openaiKey \/ accepted)
            /\ loc' = Called(loc, t, "set_api_key")
            /\ stack' = Goto(t, "rag")
    /\ UNCHANGED <<conversationsDict, holds, clock, ticks, azure>>

\* self.chatter.rag_agent = DocumentEmbedder(...)
chat_rag(t) ==
    /\ At(t, "SessionData_chat", "rag")
    /\ heap' = WithChatter(heap, loc[t].conversation,
                  [Self(t).chatter EXCEPT !.rag_agent =
                      DocumentEmbedder(loc[t].useRAG, loc[t].authKey)])
    /\ loc' = Called(loc, t, "rag_agent")
    /\ stack' = Goto(t, IF loc[t].useRAG THEN "connect" ELSE "setup")
    /\ UNCHANGED <<conversationsDict, holds, clock, ticks, azure, openaiKey>>

\* self.chatter.rag_agent.connect(): the retrieval backend answers, cannot be
\* reached, or fails otherwise.
ConnectError(backend) ==
    IF backend = "unreachable" THEN "MilvusException:CONNECT_FAILED"
    ELSE IF backend = "failing" THEN "MilvusException:other"
    ELSE None

chat_connect(t) ==
    /\ At(t, "SessionData_chat", "connect")
    /\ loc' = [Called(loc, t, "connect") EXCEPT ![t].exc = ConnectError(loc[t].backend)]
    /\ stack' = Goto(t, IF ConnectError(loc[t].backend) = None THEN "setup" ELSE "return")
    /\ UNCHANGED <<conversationsDict, heap, holds, clock, ticks, azure,
                   openaiKey>>

\* _setup_messages: the history is emptied and the messages are appended by
\* role; a message of any other role is skipped.
\* The last branch as an else: a message of another role is appended as a
\* user message.
_setup_messages_else(openai_msgs) ==
    [i \in 1..Len(openai_msgs) |->
        [by |-> IF openai_msgs[i].role = "system" THEN "append_system_message"
                ELSE IF openai_msgs[i].role = "assistant" THEN "append_ai_message"
                ELSE "append_user_message",
         content |-> openai_msgs[i].content]]

RECURSIVE _setup_messages(_)
_setup_messages(openai_msgs) ==
    IF openai_msgs = << >> THEN << >>
    ELSE LET msg == openai_msgs[Len(openai_msgs)]
             before == _setup_messages(SubSeq(openai_msgs, 1, Len(openai_msgs) - 1))
         IN IF msg.role = "system"
            THEN Append(before, [by |-> "append_system_message", content |-> msg.content])
            ELSE IF msg.role = "assistant"
            THEN Append(before, [by |-> "append_ai_message", content |-> msg.content])
            ELSE IF msg.role = "user"
            THEN Append(before, [by |-> "append_user_message", content |-> msg.content])
            ELSE before

\* text = messages[-1]["content"]; messages = messages[:-1]; _setup_messages
chat_setup(t) ==
    /\ At(t, "SessionData_chat", "setup")
    /\ LET messages == loc[t].messages
           n == Len(messages)
       IN IF n = 0
          THEN /\ loc' = [loc EXCEPT ![t].exc = "IndexError"]
               /\ stack' = Goto(t, "return")
               /\ heap' = heap
          ELSE /\ heap' = WithChatter(heap, loc[t].conversation,
                             [Self(t).chatter EXCEPT !.messages =
                                 _setup_messages(SubSeq(messages, 1, n - 1))])
               /\ loc' = [Called(loc, t, "_setup_messages") EXCEPT
                             ![t].text = messages[n].content]
               /\ stack' = Goto(t, "query")
    /\ UNCHANGED <<conversationsDict, holds, clock, ticks, azure, openaiKey>>

\* The except clause without its raise.
QuerySilenced(ok) ==
    [ret |-> IF ok THEN RetReply ELSE RetNone, exc |-> None]

\* try: ... return (msg, usage) / except Exception as e: ... raise e
QueryOutcome(ok) ==
    [ret |-> IF ok THEN RetReply ELSE RetNone,
     exc |-> IF ok THEN None ELSE "EngineError"]

\* (msg, usage, _) = self.chatter.query(text): the engine replies or raises;
\* an exception is logged and raised again.
chat_query(t) ==
    /\ At(t, "SessionData_chat", "query")
    /\ \E ok \in BOOLEAN :
        loc' = [Called(loc, t, "query") EXCEPT
                   ![t].ret = QueryOutcome(ok).ret,
                   ![t].exc = QueryOutcome(ok).exc]
    /\ stack' = Goto(t, "return")
    /\ UNCHANGED <<conversationsDict, heap, holds, clock, ticks, azure,
                   openaiKey>>

\* The method returns or raises to conversation_manager.chat.
chat_return(t) ==
    /\ At(t, "SessionData_chat", "return")
    /\ stack' = [stack EXCEPT ![t] = Tail(@)]
    /\ UNCHANGED <<conversationsDict, heap, holds, clock, ticks, azure,
                   openaiKey, loc>>

\* ------------------------------------------------------------------- chat
\* conversation = get_conversation(sessionId=sessionId)
chat_get(t) ==
    /\ At(t, "chat", "try")
    /\ stack' = Call(t, "got", "get_conversation")
    /\ UNCHANGED <<conversationsDict, heap, holds, clock, ticks, azure,
                   openaiKey, loc>>

\* return conversation.chat(...): the lock taken on entry is still held.
chat_call(t) ==
    /\ At(t, "chat", "got")
    /\ IF loc[t].exc # None
       THEN /\ stack' = Goto(t, "finally")
            /\ loc' = loc
       ELSE /\ stack' = Invoke(t, "finally", "SessionData_chat", "guard")
            /\ loc' = [loc EXCEPT ![t].conversation = loc[t].ret.ref,
                                  ![t].ret = RetNone]
    /\ UNCHANGED <<conversationsDict, heap, holds, clock, ticks, azure,
                   openaiKey>>

\* ------------------------------------------------------------------ handle
\* def chat(sessionId, messages, authKey, ragConfig, useRAG)
ChatParameters == {"sessionId", "messages", "authKey", "ragConfig", "useRAG"}

\* The keywords the handler passes to chat.
HandleKeywords ==
    {"sessionId", "messages", "authKey", "ragConfig", "useRAG",
     "kgConfig", "useKG", "oncokbConfig", "useAutoAgent"}

\* return (msg, usage)   against   (msg, usage, contexts) = chat(...)
ReplyFields == <<"msg", "usage">>

HandleTargets == <<"msg", "usage", "contexts">>

\* if not has_conversation(sessionId):
handle_has(t) ==
    /\ At(t, "handle", "has")
    /\ stack' = Call(t, "decide", "has_conversation")
    /\ UNCHANGED <<conversationsDict, heap, holds, clock, ticks, azure,
                   openaiKey, loc>>

\*     initialize_conversation(sessionId, modelConfig={..., "model": model})
handle_decide(t) ==
    /\ At(t, "handle", "decide")
    /\ stack' = IF loc[t].ret.flag
                THEN Goto(t, "chat")
                ELSE Call(t, "chat", "initialize_conversation")
    /\ loc' = [loc EXCEPT ![t].ret = RetNone]
    /\ UNCHANGED <<conversationsDict, heap, holds, clock, ticks, azure,
                   openaiKey>>

\* try: (msg, usage, contexts) = chat(sessionId=..., ..., useAutoAgent=...)
\* A keyword chat does not declare is a TypeError raised by the call itself.
\* An exception of initialize_conversation is outside the try and leaves the
\* handler.
handle_chat(t) ==
    /\ At(t, "handle", "chat")
    /\ IF loc[t].exc # None
       THEN /\ stack' = Goto(t, "return")
            /\ loc' = [loc EXCEPT ![t].response = Unhandled]
       ELSE IF HandleKeywords \subseteq ChatParameters
       THEN /\ stack' = Call(t, "respond", "chat")
            /\ loc' = loc
       ELSE /\ stack' = Goto(t, "respond")
            /\ loc' = [loc EXCEPT ![t].exc = "TypeError"]
    /\ UNCHANGED <<conversationsDict, heap, holds, clock, ticks, azure,
                   openaiKey>>

\* The JSON body: the success body when the reply unpacks, else the body of
\* the except clause that catches the exception.
Response(ret, exc) ==
    IF exc = "MilvusException:CONNECT_FAILED" THEN Json("MILVUS_CONNECT_FAILED")
    ELSE IF exc = "MilvusException:other" THEN Json("MILVUS_UNKNOWN")
    ELSE IF exc # None THEN Json(None)
    ELSE IF ret.kind = "reply" /\ Len(ReplyFields) = Len(HandleTargets) THEN Json("OK")
    ELSE Json(None)

handle_respond(t) ==
    /\ At(t, "handle", "respond")
    /\ loc' = [loc EXCEPT ![t].response = Response(loc[t].ret, loc[t].exc)]
    /\ stack' = Goto(t, "return")
    /\ UNCHANGED <<conversationsDict, heap, holds, clock, ticks, azure,
                   openaiKey>>

\* The response is sent and the worker is free.
handle_return(t) ==
    /\ At(t, "handle", "return")
    /\ stack' = [stack EXCEPT ![t] = << >>]
    /\ loc' = [loc EXCEPT ![t] = IdleLoc]
    /\ heap' = Collect(heap, conversationsDict, loc')
    /\ UNCHANGED <<conversationsDict, holds, clock, ticks, azure, openaiKey>>

\* ----------------------------------------------------------------- callers
Idle(t) == stack[t] = << >>

\* A thread enters a store function with its arguments and takes the lock,
\* the function's first statement, as soon as no other thread holds it.
Begin(t, fn, l) ==
    /\ Idle(t)
    /\ CanAcquire(t)
    /\ holds' = Acquired(t)
    /\ stack' = [stack EXCEPT ![t] = << Frame(fn, "try") >>]
    /\ loc' = [loc EXCEPT ![t] = l]
    /\ UNCHANGED <<conversationsDict, heap, clock, ticks, azure,
                   openaiKey>>

call_has_conversation(t) ==
    \E s \in SessionIds :
        Begin(t, "has_conversation", [IdleLoc EXCEPT !.op = "has_conversation", !.sid = s])

call_get_conversation(t) ==
    \E s \in SessionIds :
        Begin(t, "get_conversation", [IdleLoc EXCEPT !.op = "get_conversation", !.sid = s])

call_initialize_conversation(t) ==
    \E s \in SessionIds, m \in Models :
        Begin(t, "initialize_conversation",
              [IdleLoc EXCEPT !.op = "initialize_conversation", !.sid = s, !.model = m])

call_remove_conversation(t) ==
    \E s \in SessionIds :
        Begin(t, "remove_conversation", [IdleLoc EXCEPT !.op = "remove_conversation", !.sid = s])

Backends == {"up", "unreachable", "failing"}

\* useRAG with the state of the retrieval backend during the call.
Retrieval == {<<FALSE, "up">>} \cup {<<TRUE, b>> : b \in Backends}

call_chat(t, sessions, lists, retrievals) ==
    \E s \in sessions, m \in lists, k \in AuthKeys, r \in retrievals :
        Begin(t, "chat",
              [IdleLoc EXCEPT !.op = "chat", !.sid = s, !.messages = m,
                              !.authKey = k, !.useRAG = r[1], !.backend = r[2]])

\* The requests sent to the handler: without retrieval, and with retrieval
\* while the backend cannot be reached.
HandleRetrieval == {<<FALSE, "up">>, <<TRUE, "unreachable">>}

\* A request to POST /v1/chat/completions, past the parsing of its body.
call_handle(t) ==
    \E s \in SessionIds, m \in Models, r \in HandleRetrieval :
        /\ Idle(t)
        /\ stack' = [stack EXCEPT ![t] = << Frame("handle", "has") >>]
        /\ loc' = [loc EXCEPT ![t] =
                      [IdleLoc EXCEPT !.op = "handle", !.sid = s, !.model = m,
                                      !.messages = << Msg("user", "hi") >>,
                                      !.authKey = "sk-1",
                                      !.useRAG = r[1], !.backend = r[2]]]
        /\ UNCHANGED <<conversationsDict, heap, holds, clock, ticks, azure,
                       openaiKey>>

\* A thread calls get_conversation and waits for the lock at its first
\* statement.
enter_get_conversation(t) ==
    \E s \in SessionIds :
        /\ Idle(t)
        /\ stack' = [stack EXCEPT ![t] = << Frame("get_conversation", "acquire") >>]
        /\ loc' = [loc EXCEPT ![t] =
                      [IdleLoc EXCEPT !.op = "get_conversation", !.sid = s]]
        /\ UNCHANGED <<conversationsDict, heap, holds, clock, ticks, azure,
                       openaiKey>>

\* A thread calls a store function and waits for the lock at its first
\* statement.
Enter(t, fn, l) ==
    /\ Idle(t)
    /\ stack' = [stack EXCEPT ![t] = << Frame(fn, "acquire") >>]
    /\ loc' = [loc EXCEPT ![t] = l]
    /\ UNCHANGED <<conversationsDict, heap, holds, clock, ticks, azure,
                   openaiKey>>

\* The calls of the six locking functions on one session.
enter_store(t) ==
    \E fn \in {"has_conversation", "get_conversation",
               "initialize_conversation", "remove_conversation"} :
        Enter(t, fn, [IdleLoc EXCEPT !.op = fn, !.sid = "abc"])

enter_chat(t) ==
    \E m \in {<< Msg("user", "hi") >>}, r \in HandleRetrieval :
        Enter(t, "chat",
              [IdleLoc EXCEPT !.op = "chat", !.sid = "abc", !.messages = m,
                              !.authKey = "sk-1",
                              !.useRAG = r[1], !.backend = r[2]])

enter_recycle_conversations(t) ==
    Enter(t, "recycle_conversations", [IdleLoc EXCEPT !.op = "recycle_conversations"])

call_recycle_conversations(t) ==
    Begin(t, "recycle_conversations", [IdleLoc EXCEPT !.op = "recycle_conversations"])

\* ------------------------------------------------- process_connection_args
RAG_KG == "KG"

RAG_VECTORSTORE == "VS"

\* Python values of a connection_args dict: strings and integers.
PyStr(s) == [type |-> "str", val |-> s]

PyInt(n) == [type |-> "int", val |-> n]

\* f"{port}"
Format(v) == IF v.type = "int" THEN PyStr(ToString(v.val)) ELSE v

\* A comparison that minds the case.
LowerNot(s) == s

\* str.lower() on the host names of the model.
Lower(s) ==
    IF s \in {"LOCAL", "Local", "local"} THEN "local"
    ELSE IF s = "Milvus.Example" THEN "milvus.example"
    ELSE s

\* connection_args.get(key, default)
Get(d, key, default) == IF key \in DOMAIN d THEN d[key] ELSE default

\* "127.0.0.1" if var not in os.environ else os.environ[var]
EnvironOr(environ, var) ==
    IF var \notin DOMAIN environ THEN "127.0.0.1" ELSE environ[var]

\* One branch of process_connection_args: the host, then the port.
Processed(connection_args, environ, var, port) ==
    LET hosted ==
            IF Lower(Get(connection_args, "host", PyStr("")).val) = "local"
            THEN Inserted(connection_args, "host", PyStr(EnvironOr(environ, var)))
            ELSE connection_args
    IN Inserted(hosted, "port", Format(Get(hosted, "port", PyStr(port))))

process_connection_args(rag, connection_args, environ) ==
    IF rag = RAG_VECTORSTORE
    THEN Processed(connection_args, environ, "HOST", "19530")
    ELSE IF rag = RAG_KG
    THEN Processed(connection_args, environ, "KGHOST", "7687")
    ELSE connection_args

\* The dicts the endpoints pass: host, port and user each given or not.
Hosts == {"local", "LOCAL", "Local", "localhost", "Milvus.Example"}

Ports == {PyStr("1234"), PyInt(1234), PyInt(0)}

Dict(keys, host, port) ==
    [k \in keys |-> IF k = "host" THEN PyStr(host)
                    ELSE IF k = "port" THEN port
                    ELSE PyStr("root")]

ConnectionArgs ==
    {Dict(keys, host, port) :
        keys \in SUBSET {"host", "port", "user"}, host \in Hosts, port \in Ports}

\* os.environ: HOST and KGHOST each set or not.
Environs ==
    {[v \in vars_set |-> IF v = "HOST" THEN "milvus" ELSE "neo4j"] :
        vars_set \in SUBSET {"HOST", "KGHOST"}}

\* An endpoint calls process_connection_args(rag, connection_args).
call_process_connection_args(t) ==
    \E rag \in {RAG_VECTORSTORE, RAG_KG}, a \in ConnectionArgs, e \in Environs :
        /\ Idle(t)
        /\ stack' = [stack EXCEPT ![t] = << Frame("process_connection_args", "body") >>]
        /\ loc' = [loc EXCEPT ![t] =
                      [IdleLoc EXCEPT !.op = "process_connection_args",
                                      !.rag = rag, !.connection_args = a,
                                      !.environ = e]]
        /\ UNCHANGED <<conversationsDict, heap, holds, clock, ticks, azure,
                       openaiKey>>

\* The dict is changed in place and returned.
process_connection_args_body(t) ==
    /\ At(t, "process_connection_args", "body")
    /\ loc' = [loc EXCEPT ![t].connection_args =
                  process_connection_args(loc[t].rag, loc[t].connection_args,
                                          loc[t].environ)]
    /\ stack' = Goto(t, "return")
    /\ UNCHANGED <<conversationsDict, heap, holds, clock, ticks, azure,
                   openaiKey>>

process_connection_args_return(t) ==
    /\ At(t, "process_connection_args", "return")
    /\ stack' = [stack EXCEPT ![t] = << >>]
    /\ loc' = [loc EXCEPT ![t] = IdleLoc]
    /\ UNCHANGED <<conversationsDict, heap, holds, clock, ticks, azure,
                   openaiKey>>

\* One endpoint call after another.
NextArgs ==
    \/ call_process_connection_args(1)
    \/ process_connection_args_body(1)
    \/ process_connection_args_return(1)

SpecArgs == Init /\ [][NextArgs]_vars

\* ------------------------------------------------------------------- clock
\* Time passes: by a fraction of a millisecond, or by the age limit.
Later(c, far) ==
    IF far THEN [c EXCEPT !.ms = @ + MAX_AGE]
    ELSE IF c.sub + 1 = ClockPerMs THEN [ms |-> c.ms + 1, sub |-> 0]
    ELSE [c EXCEPT !.sub = @ + 1]

Tick ==
    /\ ticks < MaxTicks
    /\ \E far \in BOOLEAN : clock' = Later(clock, far)
    /\ ticks' = ticks + 1
    /\ UNCHANGED <<conversationsDict, heap, holds, azure, openaiKey,
                   stack, loc>>

\* -------------------------------------------------------------------- Next
LockStep(t) ==
    \/ rlock_acquire(t)
    \/ finally_release(t)

StoreStep(t) ==
    \/ initialize_construct(t)
    \/ initialize_insert(t)
    \/ has_conversation_body(t)
    \/ get_conversation_check(t)
    \/ get_conversation_return(t)
    \/ remove_conversation_body(t)

RecycleStep(t) ==
    \/ recycle_now(t)
    \/ recycle_scan(t)
    \/ recycle_scanned(t)
    \/ recycle_fault(t)
    \/ recycle_remove(t)

ChatStep(t) ==
    \/ initialize_construct(t)
    \/ initialize_insert(t)
    \/ get_conversation_check(t)
    \/ get_conversation_return(t)
    \/ chat_get(t)
    \/ chat_call(t)
    \/ chat_guard(t)
    \/ chat_key(t)
    \/ chat_rag(t)
    \/ chat_connect(t)
    \/ chat_setup(t)
    \/ chat_query(t)
    \/ chat_return(t)

StoreCall(t) ==
    \/ call_has_conversation(t)
    \/ call_get_conversation(t)
    \/ call_initialize_conversation(t)
    \/ call_remove_conversation(t)

\* The session store under concurrent callers, with the recycling job.
Next ==
    \/ \E t \in AllThreads : LockStep(t)
    \/ \E t \in AllThreads : StoreStep(t)
    \/ \E t \in Workers : StoreCall(t)
    \/ RecycleStep(Scheduler)
    \/ call_recycle_conversations(Scheduler)
    \/ Tick

Spec == Init /\ [][Next]_vars

\* Concurrent chats on one session.
NextChat ==
    \/ \E t \in Workers : LockStep(t)
    \/ \E t \in Workers : ChatStep(t)
    \/ \E t \in Workers : call_chat(t, {"abc"}, ChatMessages, Retrieval)

SpecChat == Init /\ [][NextChat]_vars

HandleStep(t) ==
    \/ has_conversation_body(t)
    \/ initialize_construct(t)
    \/ initialize_insert(t)
    \/ handle_has(t)
    \/ handle_decide(t)
    \/ handle_chat(t)
    \/ handle_respond(t)
    \/ handle_return(t)

\* Concurrent requests to the chat-completions handler.
NextHandle ==
    \/ \E t \in Workers : LockStep(t)
    \/ \E t \in Workers : HandleStep(t)
    \/ \E t \in Workers : call_handle(t)

SpecHandle == Init /\ [][NextHandle]_vars

GetStep(t) ==
    \/ initialize_construct(t)
    \/ initialize_insert(t)
    \/ get_conversation_check(t)
    \/ get_conversation_return(t)

\* N threads in get_conversation at once.
NextGet ==
    \/ \E t \in Workers : LockStep(t)
    \/ \E t \in Workers : GetStep(t)
    \/ \E t \in Workers : enter_get_conversation(t)

SpecGet == Init /\ [][NextGet]_vars

SessionsCall(t) ==
    \/ call_chat(t, SessionIds, PlainMessages, HandleRetrieval)
    \/ call_get_conversation(t)
    \/ call_initialize_conversation(t)

\* One caller after another, on two sessions.
NextSessions ==
    \/ LockStep(1)
    \/ ChatStep(1)
    \/ SessionsCall(1)

SpecSessions == Init /\ [][NextSessions]_vars

AgeCall(t) ==
    \/ call_chat(t, {"abc"}, ChatMessages, Retrieval)
    \/ call_has_conversation(t)
    \/ call_get_conversation(t)

\* One caller after another while time passes.
NextAge ==
    \/ LockStep(1)
    \/ ChatStep(1)
    \/ has_conversation_body(1)
    \/ AgeCall(1)
    \/ Tick

SpecAge == Init /\ [][NextAge]_vars

\* Every step of thread t inside a call.
ThreadStep(t) ==
    \/ LockStep(t)
    \/ StoreStep(t)
    \/ RecycleStep(t)
    \/ chat_get(t)
    \/ chat_call(t)
    \/ chat_guard(t)
    \/ chat_key(t)
    \/ chat_rag(t)
    \/ chat_connect(t)
    \/ chat_setup(t)
    \/ chat_query(t)
    \/ chat_return(t)

\* Threads that wait for the lock: worker 1 chats, the other workers call
\* the store, the scheduler recycles, and time passes by the age limit.
NextLock ==
    \/ \E t \in AllThreads : ThreadStep(t)
    \/ \E t \in Workers \ {1} : enter_store(t)
    \/ enter_chat(1)
    \/ enter_recycle_conversations(Scheduler)
    \/ Tick /\ clock'.sub = clock.sub

\* A thread inside a call goes on: the interpreter runs it and every engine
\* call returns. A thread at rlock.acquire() goes on once the lock stays
\* free; which of several waiting threads gets a lock that is released is
\* not decided by RLock.
SpecLock ==
    /\ Init
    /\ [][NextLock]_vars
    /\ \A t \in AllThreads : WF_vars(ThreadStep(t))

\* ================================================================== claims
Caller(t) == IF Len(stack[t]) >= 2 THEN stack[t][2].fn ELSE "thread"

\* ---------------------------------------------------------------------- C1
GetBuildsOnlyIfAbsent ==
    \A t \in AllThreads :
        (At(t, "initialize_conversation", "insert") /\ Caller(t) = "get_conversation")
            => loc[t].sid \notin DOMAIN conversationsDict

GetReturnsStored ==
    \A t \in AllThreads :
        (At(t, "get_conversation", "finally") /\ loc[t].exc = None)
            => /\ loc[t].sid \in DOMAIN conversationsDict
               /\ loc[t].ret = RetRef(conversationsDict[loc[t].sid])

RecordKept ==
    \A s \in DOMAIN conversationsDict :
        /\ s \in DOMAIN conversationsDict'
        /\ conversationsDict'[s] = conversationsDict[s]

\* C1: with N threads in get_conversation(s) at once for an absent s, an
\* engine is built for s only while s has no record, the record stored for s
\* is never replaced or lost, and every caller that returns is handed the
\* record the store holds for s: one construction, one record, the same for
\* all.
GetConversationCreatesOnce ==
    [](GetBuildsOnlyIfAbsent /\ GetReturnsStored) /\ [][RecordKept]_vars

\* C1 witness: a caller is handed a record it did not build while another
\* thread waits in get_conversation for the same session.
GetConversationSharedWitness ==
    \E t, u \in Workers :
        /\ t # u
        /\ At(u, "get_conversation", "finally")
        /\ loc[u].exc = None
        /\ "construct" \notin loc[u].calls
        /\ loc[u].ret = RetRef(conversationsDict[loc[u].sid])
        /\ At(t, "get_conversation", "acquire")
        /\ loc[t].sid = loc[u].sid

\* ---------------------------------------------------------------------- C2
\* C2: no thread holds the store lock while it is inside the engine query or
\* the retrieval backend's connect call of chat.
NoLockDuringEngineCall ==
    \A t \in AllThreads :
        (At(t, "SessionData_chat", "connect") \/ At(t, "SessionData_chat", "query"))
            => holds[t] = 0

\* ---------------------------------------------------------------------- C3
\* The statements that read or write conversationsDict.
DictStatements ==
    { <<"has_conversation", "try">>,
      <<"get_conversation", "try">>,
      <<"get_conversation", "return">>,
      <<"initialize_conversation", "insert">>,
      <<"remove_conversation", "try">>,
      <<"recycle_conversations", "try">>,
      <<"recycle_conversations", "scan">> }

AtDictStatement(t) ==
    /\ stack[t] # << >>
    /\ <<Head(stack[t]).fn, Head(stack[t]).pc>> \in DictStatements

\* C3: at most one thread holds the store lock, and a thread about to read or
\* write conversationsDict (in has_conversation, get_conversation,
\* initialize_conversation, remove_conversation, recycle_conversations)
\* holds it.
StoreLockGuardsDict ==
    /\ Cardinality({t \in AllThreads : holds[t] > 0}) <= 1
    /\ \A t \in AllThreads : AtDictStatement(t) => holds[t] > 0

\* C3 witness: the recycling job, inside its nested remove_conversation, is
\* about to delete a stored record and is the one holder of the lock.
StoreLockGuardsDictWitness ==
    /\ At(Scheduler, "remove_conversation", "try")
    /\ loc[Scheduler].sid \in DOMAIN conversationsDict
    /\ holds[Scheduler] = 2
    /\ \A t \in Workers : holds[t] = 0

\* ---------------------------------------------------------------------- C4
HasAnswersMembership ==
    \A t \in AllThreads :
        /\ At(t, "has_conversation", "finally")
            => loc[t].ret = RetBool(loc[t].sid \in DOMAIN conversationsDict)
        /\ ((At(t, "get_conversation", "finally")
                \/ At(t, "initialize_conversation", "finally")) /\ loc[t].exc = None)
            => loc[t].sid \in DOMAIN conversationsDict
        /\ At(t, "remove_conversation", "finally")
            => (loc[t].sid \notin DOMAIN conversationsDict /\ loc[t].exc = None)

OnlyInitializeAdds ==
    \A s \in SessionIds :
        (s \notin DOMAIN conversationsDict /\ s \in DOMAIN conversationsDict')
            => \E t \in AllThreads :
                   At(t, "initialize_conversation", "insert") /\ loc[t].sid = s

\* C4: the store starts empty and a session id enters it only by the insert
\* of initialize_conversation (called directly or by get_conversation), so
\* has_conversation(s) is false before any of them; has_conversation answers
\* the membership of s; s is stored when get_conversation or
\* initialize_conversation returns normally and is not stored when
\* remove_conversation returns, which it always does without raising.
HasFollowsCreateAndRemove ==
    /\ conversationsDict = << >>
    /\ []HasAnswersMembership
    /\ [][OnlyInitializeAdds]_vars

\* C4 witness: has_conversation answers true (a create came before it).
HasTrueWitness ==
    \E t \in Workers :
        /\ At(t, "has_conversation", "finally")
        /\ loc[t].ret = RetBool(TRUE)

\* ---------------------------------------------------------------------- C5
\* refreshedAt + maxAge < now, for the record stored under s.
PastDeadline(s, now) ==
    LET r == heap[conversationsDict[s]]
    IN \/ r.refreshedAt + r.maxAge < now.ms
       \/ (r.refreshedAt + r.maxAge = now.ms /\ now.sub > 0)

InTick(t) ==
    /\ stack[t] # << >>
    /\ stack[t][Len(stack[t])].fn = "recycle_conversations"
    /\ stack[t][Len(stack[t])].pc # "try"

ScanListsPastDeadline ==
    \A t \in AllThreads :
        (At(t, "recycle_conversations", "scan") /\ loc[t].toScan = {})
            => Range(loc[t].sessionsToRemove) =
                   {s \in DOMAIN conversationsDict : PastDeadline(s, loc[t].now)}

TickLeavesNonePastDeadline ==
    \A t \in AllThreads :
        (At(t, "recycle_conversations", "finally") /\ loc[t].exc = None)
            => \A s \in DOMAIN conversationsDict : ~PastDeadline(s, loc[t].now)

TickKeepsOthers ==
    \A t \in AllThreads : \A s \in DOMAIN conversationsDict :
        (InTick(t) /\ ~PastDeadline(s, loc[t].now))
            => /\ s \in DOMAIN conversationsDict'
               /\ conversationsDict'[s] = conversationsDict[s]

\* C5: a tick that read the clock as now lists for removal exactly the
\* records with refreshedAt + maxAge < now, has removed all of them when it
\* ends, and removes no record with refreshedAt + maxAge >= now.
RecycleRemovesExactlyExpired ==
    /\ [](ScanListsPastDeadline /\ TickLeavesNonePastDeadline)
    /\ [][TickKeepsOthers]_vars

\* C5 witness: the scan of a tick has ended with one of two stored records
\* past its deadline and listed, the other not.
RecycleSplitWitness ==
    /\ At(Scheduler, "recycle_conversations", "scan")
    /\ loc[Scheduler].toScan = {}
    /\ Len(loc[Scheduler].sessionsToRemove) = 1
    /\ Cardinality(DOMAIN conversationsDict) = 2

\* ---------------------------------------------------------------------- C6
\* The thread's insert statement is the step taken.
Inserts(t) ==
    /\ At(t, "initialize_conversation", "insert")
    /\ stack'[t] # stack[t]

NewRecordStored(t) ==
    LET s == loc[t].sid
        r == conversationsDict'[s]
        ms == clock.ms
    IN /\ s \in DOMAIN conversationsDict'
       /\ r \notin DOMAIN heap
       /\ r \in DOMAIN heap'
       /\ heap'[r].sessionId = s
       /\ heap'[r].modelConfig = loc[t].model
       /\ heap'[r].chatter.variant =
              (IF azure THEN "azure"
               ELSE IF loc[t].model = "mistral-wasm" THEN "wasm" ELSE "gpt")
       /\ heap'[r].chatter.messages = << >>
       /\ heap'[r].chatter.rag_agent = NoRag
       /\ heap'[r].createdAt = ms
       /\ heap'[r].refreshedAt = ms
       /\ heap'[r].maxAge = 3 * 24 * 3600 * 1000

\* C6: the insert of initialize_conversation stores under s a record that
\* did not exist before, with an engine of the variant the environment and
\* this call's model select, an empty history, and createdAt = refreshedAt =
\* the millisecond of the call, whether or not s had a record.
InitializeStoresNewRecord ==
    [][\A t \in AllThreads : Inserts(t) => NewRecordStored(t)]_vars

\* C6 witness: initialize_conversation has replaced the record s had.
InitializeReplacedWitness ==
    \E t \in Workers :
        /\ At(t, "initialize_conversation", "finally")
        /\ loc[t].exc = None
        /\ loc[t].replaced # NoRef
        /\ conversationsDict[loc[t].sid] # loc[t].replaced

\* ---------------------------------------------------------------------- C7
Failing(t) ==
    \/ loc[t].exc = "ConstructError"
    \/ loc'[t].exc = "ConstructError"

\* C7: from the step in which the construction of the engine fails until the
\* exception leaves the outermost function, conversationsDict and the stored
\* records do not change; no function on the way drops the exception, the
\* outermost one raises it to its caller, and the thread then holds the lock
\* no more.
ConstructFailureLeavesStore ==
    [][\A t \in AllThreads :
          Failing(t) =>
              /\ conversationsDict' = conversationsDict
              /\ heap' = heap
              /\ \/ loc'[t].exc = "ConstructError"
                 \/ /\ stack'[t] = << >>
                    /\ ~Swallows(Head(stack[t]).fn)
                    /\ holds'[t] = 0]_vars

\* C7 witness: the construction failed in initialize_conversation for a
\* session that has a record.
ConstructFailureWitness ==
    \E t \in Workers :
        /\ At(t, "initialize_conversation", "finally")
        /\ loc[t].exc = "ConstructError"
        /\ loc[t].sid \in DOMAIN conversationsDict

\* ---------------------------------------------------------------------- C8
\* C8: a chat with messages and no authKey on an engine that needs a key and
\* has none ends in an exception for the caller.
MissingKeyRaises ==
    \A t \in AllThreads :
        (/\ At(t, "chat", "finally")
         /\ loc[t].conversation # NoRef
         /\ loc[t].messages # << >>
         /\ loc[t].authKey = ""
         /\ NeedsKey(heap[loc[t].conversation].chatter))
            => loc[t].exc # None

\* ---------------------------------------------------------------------- C9
EngineCalls == {"set_api_key", "rag_agent", "connect", "_setup_messages", "query"}

EmptyChat(t) == loc[t].op = "chat" /\ loc[t].messages = << >>

EmptyChatCallsNothing ==
    \A t \in AllThreads :
        EmptyChat(t) =>
            /\ loc[t].calls \cap EngineCalls = {}
            /\ (At(t, "chat", "finally") /\ loc[t].exc = None)
                   => loc[t].ret = RetNone

EmptyChatKeepsEngine ==
    \A t \in AllThreads :
        (EmptyChat(t) /\ loc[t].sid \in DOMAIN conversationsDict)
            => /\ loc[t].sid \in DOMAIN conversationsDict'
               /\ heap'[conversationsDict'[loc[t].sid]].chatter
                      = heap[conversationsDict[loc[t].sid]].chatter

\* C9: a chat with an empty messages list calls nothing on the engine of the
\* session's record (no set_api_key, no rag_agent, no connect, no
\* _setup_messages, no query), returns None, and no step of it changes the
\* engine of a record the session has; a session without a record gets one
\* from get_conversation first, as in every chat.
EmptyChatIsNoOp ==
    []EmptyChatCallsNothing /\ [][EmptyChatKeepsEngine]_vars

\* C9 witness: a chat with no messages is about to return on a session whose
\* engine holds a history.
EmptyChatWitness ==
    \E t \in Workers :
        /\ EmptyChat(t)
        /\ At(t, "chat", "finally")
        /\ loc[t].exc = None
        /\ loc[t].conversation # NoRef
        /\ heap[loc[t].conversation].chatter.messages # << >>

\* --------------------------------------------------------------------- C10
\* C10: a request with useRAG while the retrieval backend cannot be reached
\* is answered with the code MILVUS_CONNECT_FAILED.
UnreachableBackendAnswered ==
    \A t \in AllThreads :
        (/\ At(t, "handle", "return")
         /\ loc[t].useRAG
         /\ loc[t].backend = "unreachable"
         /\ loc[t].response.kind = "json")
            => loc[t].response = Json("MILVUS_CONNECT_FAILED")

\* --------------------------------------------------------------------- C11
\* The codes of the error-code contract.
Codes == {"OK", "MILVUS_CONNECT_FAILED", "MILVUS_UNKNOWN", "UNKNOWN"}

\* C11: every JSON body the chat-completions handler returns carries a code
\* of the closed set OK, MILVUS_CONNECT_FAILED, MILVUS_UNKNOWN, UNKNOWN.
HandlerBodiesCarryCode ==
    \A t \in AllThreads :
        (At(t, "handle", "return") /\ loc[t].response.kind = "json")
            => loc[t].response.code \in Codes

\* --------------------------------------------------------------------- C12
\* The thread's del-or-return statement is the step taken.
Removes(t) ==
    /\ At(t, "remove_conversation", "try")
    /\ stack'[t] # stack[t]

RemoveEffect(t) ==
    LET s == loc[t].sid
    IN /\ s \notin DOMAIN conversationsDict'
       /\ DOMAIN conversationsDict' = DOMAIN conversationsDict \ {s}
       /\ \A x \in DOMAIN conversationsDict' :
              /\ conversationsDict'[x] = conversationsDict[x]
              /\ heap'[conversationsDict'[x]] = heap[conversationsDict[x]]
       /\ (s \notin DOMAIN conversationsDict
              => conversationsDict' = conversationsDict)
       /\ loc'[t].exc = None

RemoveReturns ==
    \A t \in AllThreads :
        At(t, "remove_conversation", "finally")
            => /\ loc[t].exc = None
               /\ loc[t].sid \notin DOMAIN conversationsDict

\* C12: remove_conversation(s) leaves a store without s in which every other
\* record is the one it was, and does not raise; on a store without s (as
\* after a first removal) it changes nothing, so a second call leaves what
\* the first one left.
RemoveIsIdempotent ==
    /\ []RemoveReturns
    /\ [][\A t \in AllThreads : Removes(t) => RemoveEffect(t)]_vars

\* C12 witness: remove_conversation returns for an id that is not stored
\* while another id keeps its record.
RemoveKeepsOthersWitness ==
    \E t \in Workers :
        /\ At(t, "remove_conversation", "finally")
        /\ loc[t].sid \notin DOMAIN conversationsDict
        /\ conversationsDict # << >>

\* --------------------------------------------------------------------- C13
\* The step is one of thread t.
Acts(t) == stack'[t] # stack[t]

\* The call thread t is in, or enters with this step.
CallOf(t) == IF loc[t].op = "idle" THEN loc'[t] ELSE loc[t]

OthersUntouched(s1) ==
    \A s2 \in DOMAIN conversationsDict \ {s1} :
        /\ s2 \in DOMAIN conversationsDict'
        /\ conversationsDict'[s2] = conversationsDict[s2]
        /\ heap'[conversationsDict'[s2]] = heap[conversationsDict[s2]]

\* C13: no step of get_conversation(s1), initialize_conversation(s1, cfg) or
\* chat(s1, ...) changes the record of another session s2 (the empty string
\* being a session id like any other): s2 stays stored, with the same record
\* object, engine, history and timestamps.
OtherSessionsUntouched ==
    [][\A t \in AllThreads :
          (Acts(t) /\ CallOf(t).op \in {"get_conversation",
                                        "initialize_conversation", "chat"})
              => OthersUntouched(CallOf(t).sid)]_vars

\* C13 witness: a chat on one session got its reply while the other session
\* (either of them may be the empty id) holds a record with a history.
OtherSessionWitness ==
    \E t \in Workers : \E s2 \in DOMAIN conversationsDict :
        /\ At(t, "chat", "finally")
        /\ loc[t].ret = RetReply
        /\ s2 # loc[t].sid
        /\ loc[t].sid = ""
        /\ heap[conversationsDict[s2]].chatter.messages # << >>
        /\ heap[conversationsDict[loc[t].sid]].chatter.messages = << >>

\* --------------------------------------------------------------------- C15
StoredAges ==
    \A s \in DOMAIN conversationsDict :
        LET r == heap[conversationsDict[s]]
        IN /\ r.refreshedAt = r.createdAt
           /\ r.maxAge = 3 * 24 * 3600 * 1000

AgesFixed ==
    \A r \in DOMAIN heap \cap DOMAIN heap' :
        /\ heap'[r].createdAt = heap[r].createdAt
        /\ heap'[r].refreshedAt = heap[r].refreshedAt
        /\ heap'[r].maxAge = heap[r].maxAge

EmptyTickIsNoOp ==
    \A t \in AllThreads :
        ((InTick(t) \/ At(t, "recycle_conversations", "try"))
             /\ conversationsDict = << >>)
            => /\ conversationsDict' = << >>
               /\ loc'[t].exc = None

TickEndsClean ==
    \A t \in AllThreads :
        (At(t, "recycle_conversations", "finally") /\ loc[t].exc = None)
            => /\ loc[t].sessionsToRemove = << >>
               /\ \A s \in DOMAIN conversationsDict :
                      ~PastDeadline(s, loc[t].now)

TickKeepsLiveRecords ==
    \A t \in AllThreads : \A s \in DOMAIN conversationsDict :
        (InTick(t) /\ ~PastDeadline(s, loc[t].now))
            => /\ s \in DOMAIN conversationsDict'
               /\ heap'[conversationsDict'[s]] = heap[conversationsDict[s]]

\* C14: a tick on an empty store leaves it empty and raises nothing; a tick
\* that ends has removed every record past its deadline at the tick's now,
\* however many there were, and no step of it removes or changes a record
\* that is not past its deadline.
TickRemovesAllExpiredAtOnce ==
    /\ []TickEndsClean
    /\ [][EmptyTickIsNoOp /\ TickKeepsLiveRecords]_vars

\* C14 witness: in one tick the first of two listed records has been removed
\* and the second is about to be.
TickSecondRemovalWitness ==
    /\ At(Scheduler, "recycle_conversations", "remove")
    /\ Len(loc[Scheduler].sessionsToRemove) = 1
    /\ loc[Scheduler].sid \notin DOMAIN conversationsDict
    /\ Head(loc[Scheduler].sessionsToRemove) \in DOMAIN conversationsDict
    /\ Head(loc[Scheduler].sessionsToRemove) # loc[Scheduler].sid

TickHoldsLock ==
    \A t \in AllThreads :
        InTick(t) =>
            /\ holds[t] >= 1
            /\ holds[t] = Len(stack[t])
                              - (IF Head(stack[t]).pc = "acquire" THEN 1 ELSE 0)
            /\ \A u \in AllThreads \ {t} : holds[u] = 0 /\ stack[u] = << >>

TickAlone ==
    \A t \in AllThreads :
        (InTick(t) /\ conversationsDict' # conversationsDict) => Acts(t)

TickErrorStaysInside ==
    [][\A t \in AllThreads :
          (/\ At(t, "recycle_conversations", "finally")
           /\ loc[t].exc # None
           /\ Acts(t))
              => Swallows(Head(stack[t]).fn)]_vars

\* --------------------------------------------------------------------- C16
AtQuery(stk) ==
    /\ stk # << >>
    /\ Head(stk).fn = "SessionData_chat"
    /\ Head(stk).pc = "query"

\* Once the engine has been queried the call carries its reply or its
\* exception, never neither.
QueryRepliesOrRaises ==
    \A t \in AllThreads :
        ("query" \in loc[t].calls)
            => \/ loc[t].ret = RetReply /\ loc[t].exc = None
               \/ loc[t].ret # RetReply /\ loc[t].exc = "EngineError"

EngineErrorPropagates ==
    \A t \in AllThreads :
        /\ ("query" \in loc[t].calls) => ~AtQuery(stack'[t])
        /\ (loc[t].exc = "EngineError") =>
              /\ loc[t].sid \in DOMAIN conversationsDict'
              /\ \/ loc'[t].exc = "EngineError" /\ loc'[t].ret # RetReply
                 \/ /\ stack'[t] = << >>
                    /\ ~Swallows(Head(stack[t]).fn)
                    /\ holds'[t] = 0

\* C16: a query that does not reply leaves the call with the engine's
\* exception, which stays with it through SessionData.chat and chat until it
\* leaves chat for the caller, with no second query, the lock given back
\* and the session's record still stored.
EngineErrorReachesCaller ==
    []QueryRepliesOrRaises /\ [][EngineErrorPropagates]_vars

\* C16 witness: chat is about to raise the engine's exception to its caller.
EngineErrorWitness ==
    \E t \in Workers :
        /\ At(t, "chat", "finally")
        /\ loc[t].exc = "EngineError"
        /\ Len(stack[t]) = 1
        /\ loc[t].sid \in DOMAIN conversationsDict

\* --------------------------------------------------------------------- C18
AppendFor(role) ==
    IF role = "system" THEN "append_system_message"
    ELSE IF role = "assistant" THEN "append_ai_message"
    ELSE "append_user_message"

HasKnownRole(m) == m.role \in {"system", "assistant", "user"}

\* The history the claim expects for a messages list.
Replayed(messages) ==
    LET kept == SelectSeq(SubSeq(messages, 1, Len(messages) - 1), HasKnownRole)
    IN [i \in 1..Len(kept) |->
           [by |-> AppendFor(kept[i].role), content |-> kept[i].content]]

\* C18: when chat is about to query, the engine's history is the messages
\* before the last one that have the role system, assistant or user, in
\* their order, each appended by the operation of its role, and nothing
\* else (nothing of an earlier call, nothing for another role); the text of
\* the query is the content of the last message, whatever its role.
HistoryIsReplayOfMessages ==
    \A t \in AllThreads :
        AtQuery(stack[t]) =>
            /\ loc[t].messages # << >>
            /\ Self(t).chatter.messages = Replayed(loc[t].messages)
            /\ loc[t].text = loc[t].messages[Len(loc[t].messages)].content

\* C18 witness: a list with a message of another role between two replayed
\* ones and as its last message is about to be queried.
ReplaySkipsWitness ==
    \E t \in Workers :
        /\ AtQuery(stack[t])
        /\ Len(loc[t].messages) = 4
        /\ Len(Self(t).chatter.messages) = 2
        /\ loc[t].messages[4].role = "tool"
        /\ loc[t].text = "yo"

\* --------------------------------------------------------------------- C17
\* The spellings of "local" that are equal to it ignoring case.
LocalSpellings == {"local", "LOCAL", "Local", "lOCAL", "LoCaL"}

\* The decimal string of a port as it was given.
PortString(v) ==
    IF v.type = "str" THEN v.val
    ELSE IF v.val = 1234 THEN "1234"
    ELSE "0"

ArgsProcessed(kind, given, environ, result) ==
    LET var == IF kind = "VS" THEN "HOST" ELSE "KGHOST"
        address == IF var \in DOMAIN environ THEN environ[var] ELSE "127.0.0.1"
        default == IF kind = "VS" THEN "19530" ELSE "7687"
        isLocal == "host" \in DOMAIN given /\ given["host"].val \in LocalSpellings
    IN /\ isLocal => ("host" \in DOMAIN result
                        /\ result["host"] = [type |-> "str", val |-> address])
       /\ ~isLocal => /\ ("host" \in DOMAIN result) = ("host" \in DOMAIN given)
                      /\ "host" \in DOMAIN given => result["host"] = given["host"]
       /\ "port" \in DOMAIN result
       /\ result["port"].type = "str"
       /\ result["port"].val = (IF "port" \in DOMAIN given
                                THEN PortString(given["port"]) ELSE default)
       /\ DOMAIN result \ {"host", "port"} = DOMAIN given \ {"host", "port"}
       /\ \A k \in DOMAIN given \ {"host", "port"} : result[k] = given[k]

\* C17: process_connection_args(kind, args), kind being the vector store or
\* the knowledge graph, returns args with the host replaced by the address
\* of the kind's environment variable (127.0.0.1 when unset) exactly when
\* the host equals "local" ignoring case, the port as a string (the given
\* one, or 19530 / 7687 when none was given), and every other key as given.
ConnectionArgsProcessed ==
    [][\A t \in AllThreads :
          (At(t, "process_connection_args", "body") /\ Acts(t))
              => ArgsProcessed(loc[t].rag, loc[t].connection_args,
                               loc[t].environ, loc'[t].connection_args)]_vars

\* C17 witness: a knowledge-graph call with a host equal to "local", KGHOST set
\* and an integer port has returned.
ConnectionArgsWitness ==
    \E t \in Workers :
        /\ At(t, "process_connection_args", "return")
        /\ loc[t].rag = "KG"
        /\ "KGHOST" \in DOMAIN loc[t].environ
        /\ DOMAIN loc[t].connection_args = {"host", "port", "user"}
        /\ loc[t].connection_args["host"].val = "neo4j"
        /\ loc[t].connection_args["port"] = [type |-> "str", val |-> "0"]

\* ---------------------------------------------------------------------- C21
\* The functions that take the store lock at their first statement.
LockFns ==
    {"has_conversation", "get_conversation", "initialize_conversation",
     "remove_conversation", "chat", "recycle_conversations"}

RECURSIVE Entered(_)
Entered(stk) ==
    IF stk = << >> THEN 0
    ELSE Entered(Tail(stk))
         + (IF Head(stk).fn \in LockFns /\ Head(stk).pc # "acquire"
            THEN 1 ELSE 0)

Waiting(t) ==
    /\ stack[t] # << >>
    /\ Head(stack[t]).pc = "acquire"
    /\ holds[t] = 0

\* A thread holds the lock once for each call it is inside past the
\* acquire: none when it is in no call, whether the call returned or raised.
LockBalanced ==
    \A t \in AllThreads : holds[t] = Entered(stack[t])

\* A nested call of a thread that holds the lock takes the lock at once.
NestedAcquires ==
    \A t \in AllThreads :
        (stack[t] # << >> /\ Head(stack[t]).pc = "acquire" /\ holds[t] > 0)
            => CanAcquire(t)

\* C21 as stated: acquisitions are balanced, a nested acquisition does not
\* block, and every thread that waits for the lock eventually holds it.
EveryWaiterAcquires ==
    /\ [](LockBalanced /\ NestedAcquires)
    /\ \A t \in AllThreads : Waiting(t) ~> (holds[t] > 0)

\* C21: acquisitions are balanced on every path, a nested acquisition does
\* not block, a thread that holds the lock eventually holds it no more, and
\* while threads wait some thread eventually holds the lock.
LockBalancedAndReleased ==
    /\ [](LockBalanced /\ NestedAcquires)
    /\ \A t \in AllThreads : (holds[t] > 0) ~> (holds[t] = 0)
    /\ (\E t \in AllThreads : Waiting(t)) ~> (\E t \in AllThreads : holds[t] > 0)

\* A thread waits while another is two calls deep with an error under way.
WaitingBehindNestedWitness ==
    \E t, u \in AllThreads :
        /\ Waiting(t)
        /\ holds[u] = 2
        /\ loc[u].exc # None

InChat(t) ==
    /\ stack[t] # << >>
    /\ stack[t][Len(stack[t])].fn = "chat"

\* The record the chat has looked up: the one get_conversation returned,
\* then the one whose chat method runs.
Used(t) ==
    IF loc[t].conversation # NoRef THEN loc[t].conversation
    ELSE loc[t].ret.ref

\* C23: whenever a chat on s is past its lookup and has not yet returned or
\* raised, the store holds under s the very record the chat is using: no
\* recycling tick and no remove_conversation of another thread deletes it
\* in between.
ChatRecordStays ==
    \A t \in AllThreads :
        (InChat(t) /\ Used(t) # NoRef) =>
            /\ loc[t].sid \in DOMAIN conversationsDict
            /\ conversationsDict[loc[t].sid] = Used(t)

\* A chat is inside the engine call on a record past its deadline while a
\* removal of its session and a recycling tick wait for the lock.
ChatWithRemovalsWaitingWitness ==
    \E t, u \in Workers :
        /\ InChat(t)
        /\ At(t, "SessionData_chat", "query")
        /\ Used(t) # NoRef
        /\ Expired(heap[Used(t)], clock)
        /\ At(u, "remove_conversation", "acquire")
        /\ loc[u].sid = loc[t].sid
        /\ At(Scheduler, "recycle_conversations", "acquire")

====
